---- MODULE Spec2Model ----
(***************************************************************************)
(* The PDF document store of WeaveApp2 (src/unnamed/part_002): renamePdf,  *)
(* listAllPdfs, getPdfFileInfo and deletePdfFile over the expo file        *)
(* system, called by several callers whose awaits interleave.              *)
(*                                                                         *)
(* A string is a sequence of one-character strings.  A uri is a record     *)
(* [d, n]: d = "doc" is the managed document directory                     *)
(* (FileSystem.documentDirectory), d = "tmp" the renderer's cache; n is    *)
(* the file name.  A file is [data, mtime]: data is a sequence of blocks   *)
(* naming the document they belong to, its length is the file's size.      *)
(* Every await of the source is one atomic platform step; the JavaScript   *)
(* between two awaits runs with the step that resumes it.                  *)
(*                                                                         *)
(* Spec is the service under interleaved callers.  NamingSpec applies the  *)
(* editor's sanitizePdfName (src/unnamed/part_000) and the service's       *)
(* sanitizeFileName to the texts a user can type.  ResolveSpec runs the    *)
(* collision retry of one renamePdf against every directory of its         *)
(* candidates under an arbitrary clock.  EditorSpec rotates and removes    *)
(* the images of the editor screen.  AppSpec is the main screen's flow     *)
(* (src/App.tsx): generate, then save under a name or discard, then list.  *)
(***************************************************************************)
EXTENDS Integers, Sequences, FiniteSets, TLC

VARIABLES
  fs,        \* the file system: uri -> file, defined on the existing files
  clock,     \* Date.now() and the file system's modification clock
  docDirOk,  \* FileSystem.documentDirectory is not null
  st,        \* per caller: operation, position, arguments, locals, result
  ed,        \* the editor screen (src/unnamed/part_000): the name being saved
  app        \* the main screen (src/App.tsx): its state and running handler

vars == <<fs, clock, docDirOk, st, ed, app>>

----------------------------------------------------------------------------
(* Bounds *)

\* the files present at the start were last modified at OldMtime; the clock
\* runs from OldMtime + 1 to MaxClock
OldMtime == 1
MaxClock == 3

\* callers, each invoking one operation of the service once
Callers == {"c1", "c2", "c3"}

----------------------------------------------------------------------------
(* Characters and strings *)

UpperSeq == <<"A","B","C","D","E","F","G","H","I","J","K","L","M",
              "N","O","P","Q","R","S","T","U","V","W","X","Y","Z">>
LowerSeq == <<"a","b","c","d","e","f","g","h","i","j","k","l","m",
              "n","o","p","q","r","s","t","u","v","w","x","y","z">>
DigitSeq == <<"0","1","2","3","4","5","6","7","8","9">>

Range(s) == {s[i] : i \in DOMAIN s}

\* the class [a-zA-Z0-9._-] of sanitizeFileName
SafeChars == Range(UpperSeq) \cup Range(LowerSeq) \cup Range(DigitSeq)
               \cup {".", "_", "-"}

\* the characters String.prototype.trim removes (those the model's inputs use)
WhiteSpace == {" ", "\t", "\n"}

\* String.prototype.toLowerCase on one character
LowerChar(ch) ==
  IF \E i \in DOMAIN UpperSeq : UpperSeq[i] = ch
  THEN LowerSeq[CHOOSE i \in DOMAIN UpperSeq : UpperSeq[i] = ch]
  ELSE ch

ToLowerCase(s) == [i \in DOMAIN s |-> LowerChar(s[i])]

PdfExt == <<".", "p", "d", "f">>

\* s.endsWith(suffix)
EndsWith(s, suffix) ==
  /\ Len(s) >= Len(suffix)
  /\ SubSeq(s, Len(s) - Len(suffix) + 1, Len(s)) = suffix

\* /\.pdf$/i.test(s)
HasPdfExt(s) == EndsWith(ToLowerCase(s), PdfExt)

\* s.replace(/\.pdf$/i, "")
StripPdfExt(s) == IF HasPdfExt(s) THEN SubSeq(s, 1, Len(s) - 4) ELSE s

\* String(n) for a non-negative integer
RECURSIVE ToDigits(_)
ToDigits(n) ==
  IF n < 10 THEN <<DigitSeq[n + 1]>>
  ELSE ToDigits(n \div 10) \o <<DigitSeq[(n % 10) + 1]>>

\* s.replace(/[^a-zA-Z0-9._-]/g, "_")
ReplaceUnsafe(s) == [i \in DOMAIN s |-> IF s[i] \in SafeChars THEN s[i] ELSE "_"]

\* s.replace(/_{2,}/g, "_"): of each run of underscores the first is kept
CollapseUnderscores(s) ==
  LET Kept(i) == ~(s[i] = "_" /\ i > 1 /\ s[i - 1] = "_")
      kept == SelectSeq([i \in DOMAIN s |-> i], Kept)
  IN  [k \in DOMAIN kept |-> s[kept[k]]]

\* s.trim()
RECURSIVE Trim(_)
Trim(s) ==
  IF s = <<>> THEN s
  ELSE IF s[1] \in WhiteSpace THEN Trim(Tail(s))
  ELSE IF s[Len(s)] \in WhiteSpace THEN Trim(SubSeq(s, 1, Len(s) - 1))
  ELSE s

\* mutant: the extension is appended whether or not the name has it
sanitizeFileName_AlwaysAppends(name) ==
  Trim(CollapseUnderscores(ReplaceUnsafe(name))) \o PdfExt

sanitizeFileName(name) ==
  LET sanitized == Trim(CollapseUnderscores(ReplaceUnsafe(name)))
  IN  IF HasPdfExt(sanitized) THEN sanitized ELSE sanitized \o PdfExt

\* stem without a suffix _<digits> at its end
RECURSIVE StripDigits(_)
StripDigits(stem) ==
  IF stem # <<>> /\ stem[Len(stem)] \in Range(DigitSeq)
  THEN StripDigits(SubSeq(stem, 1, Len(stem) - 1))
  ELSE stem

\* mutant: the suffix replaces the suffix of the retry before
UniqueName_ReplacesSuffix(cleanName, timestamp) ==
  LET stem == StripPdfExt(cleanName)
      cut == StripDigits(stem)
      first == IF cut # stem /\ cut # <<>> /\ cut[Len(cut)] = "_"
               THEN SubSeq(cut, 1, Len(cut) - 1) ELSE stem
  IN  first \o <<"_">> \o ToDigits(timestamp) \o PdfExt

\* mutant: the extension is not taken off before the suffix is appended
UniqueName_KeepsExt(cleanName, timestamp) ==
  cleanName \o <<"_">> \o ToDigits(timestamp) \o PdfExt

\* `${nameWithoutExt}_${timestamp}.pdf`
UniqueName(cleanName, timestamp) ==
  StripPdfExt(cleanName) \o <<"_">> \o ToDigits(timestamp) \o PdfExt

----------------------------------------------------------------------------
(* The editor's names (src/unnamed/part_000) *)

\* the characters < > : " / \ | ? * of the class in sanitizePdfName
ReservedChars == {"<", ">", ":", "\"", "/", "\\", "|", "?", "*"}

\* the class \x00-\x1F (the control characters the model's inputs use)
ControlChars == {"\t", "\n"}

maxLength == 100

\* mutant: the colon is left in place
ReplaceReserved_KeepsColon(name) ==
  [i \in DOMAIN name |->
     IF name[i] \in (ReservedChars \ {":"}) \cup ControlChars THEN "_" ELSE name[i]]

\* name.replace(/[<>:"/\\|?*\x00-\x1F]/g, "_")
ReplaceReserved(name) ==
  [i \in DOMAIN name |->
     IF name[i] \in ReservedChars \cup ControlChars THEN "_" ELSE name[i]]

\* mutant: the dots at the ends are left in place
StripDots_None(s) == s

\* s.replace(/^\.+|\.+$/g, "")
RECURSIVE StripDots(_)
StripDots(s) ==
  IF s = <<>> THEN s
  ELSE IF s[1] = "." THEN StripDots(Tail(s))
  ELSE IF s[Len(s)] = "." THEN StripDots(SubSeq(s, 1, Len(s) - 1))
  ELSE s

\* s.substring(0, n)
Substring0(s, n) == SubSeq(s, 1, IF Len(s) < n THEN Len(s) ELSE n)

\* String(n).padStart(2, "0")
PadStart2(n) == IF n < 10 THEN <<"0">> \o ToDigits(n) ELSE ToDigits(n)

\* `Document-${year}-${month}-${day}-${hours}${minutes}${seconds}-${imageCount}images.pdf`
generateDefaultPdfName(imageCount, now) ==
  <<"D", "o", "c", "u", "m", "e", "n", "t", "-">>
    \o ToDigits(now.getFullYear) \o <<"-">>
    \o PadStart2(now.getMonth + 1) \o <<"-">>
    \o PadStart2(now.getDate) \o <<"-">>
    \o PadStart2(now.getHours) \o PadStart2(now.getMinutes)
    \o PadStart2(now.getSeconds) \o <<"-">>
    \o ToDigits(imageCount) \o <<"i", "m", "a", "g", "e", "s">> \o PdfExt

\* sanitizePdfName(name), editingImages.length being imageCount and
\* new Date() being now
sanitizePdfName(name, imageCount, now) ==
  LET trimmed == StripDots(Trim(ReplaceReserved(name)))
      withExt == IF ~EndsWith(ToLowerCase(trimmed), PdfExt)
                 THEN trimmed \o PdfExt ELSE trimmed
      limited == IF Len(withExt) > maxLength
                 THEN Substring0(withExt, maxLength) ELSE withExt
  IN  IF limited = PdfExt \/ Trim(limited) = <<>>
      THEN generateDefaultPdfName(imageCount, now)
      ELSE limited

----------------------------------------------------------------------------
(* The file system *)

DocUri(name) == [d |-> "doc", n |-> name]
TmpUri(name) == [d |-> "tmp", n |-> name]
NoUri == [d |-> "none", n |-> <<>>]

Exists(f, u) == u \in DOMAIN f

\* the file system with file u set to x
WriteFile(f, u, x) == [v \in DOMAIN f \cup {u} |-> IF v = u THEN x ELSE f[v]]

\* the file system without file u
RemoveFile(f, u) == [v \in DOMAIN f \ {u} |-> f[v]]

\* the names in the managed directory
DirNames(f) == {u.n : u \in {v \in DOMAIN f : v.d = "doc"}}

NoFile == [data |-> <<>>, mtime |-> 0]

\* fileInfo.modificationTime || 0, fileInfo.size || 0, x || Date.now()
OrElse(v, d) == IF v = 0 THEN d ELSE v

----------------------------------------------------------------------------
(* Inputs and the initial file system *)

\* the renderer's output files (Print.printToFileAsync), and one that is absent
SourceNames == {<<"s", "1">>, <<"s", "2">>}
MissingName == <<"s", "0">>
SourceUris == {TmpUri(n) : n \in SourceNames \cup {MissingName}}

\* a freshly rendered file: one block of its own document
Rendered(name, t) == [data |-> <<name>>, mtime |-> t]

\* the names callers ask renamePdf for
RawNames == {<<"a">>, <<"/", ".", "P", "D", "F">>}

\* documents already stored when the callers start
OldNames == {<<"a", ".", "p", "d", "f">>, <<"B", ".", "P", "D", "F">>,
             <<"n", ".", "t", "x", "t">>}

\* the uris callers pass to deletePdfFile and getPdfFileInfo
AskedUris == {DocUri(<<"a", ".", "p", "d", "f">>), DocUri(<<"z", ".", "p", "d", "f">>)}

InitFs(docs) ==
  [u \in {TmpUri(n) : n \in SourceNames} \cup {DocUri(n) : n \in docs} |->
     Rendered(u.n, OldMtime)]

----------------------------------------------------------------------------
(* Callers *)

NoErr == [msg |-> "", wraps |-> 0]
NoInfo == [size |-> 0, modificationTime |-> 0, filename |-> <<>>]

Idle ==
  [op |-> "none", pc |-> "idle",
   src |-> NoUri, newName |-> <<>>, cleanName |-> <<>>,   \* renamePdf
   tgtExists |-> FALSE, depth |-> 0, retUri |-> NoUri,
   uri |-> NoUri, retBool |-> FALSE, retInfo |-> NoInfo,  \* delete, info
   pdfFiles |-> <<>>, infos |-> <<>>,                     \* listAllPdfs
   retList |-> <<>>,
   err |-> NoErr,
   prior |-> {}]     \* history: the callers that had returned at the call

Returned == {c \in Callers : st[c].pc \in {"done", "failed"}}
Active == {c \in Callers : st[c].pc \notin {"idle", "done", "failed"}}

\* Callers are interchangeable, so they call in the order c1, c2, c3.  The
\* runs are those of two calls that may overlap, and those of two calls made
\* one after the other and then a listing.
MayCall(c) ==
  /\ st[c].pc = "idle"
  /\ \/ c = "c1"
     \/ c = "c2" /\ st["c1"].pc # "idle"

MayList(c) ==
  \/ MayCall(c)
  \/ /\ c = "c3" /\ st[c].pc = "idle"
     /\ Returned = {"c1", "c2"} /\ "c1" \in st["c2"].prior

\* the editor screen: the text of the name field (pdfName), the number of
\* images (editingImages.length) and the images themselves (items), the date
\* of the device, and the names made of the text by the editor
\* (finalPdfName) and by the service (fileName)
EdClosed ==
  [pc |-> "closed", pdfName |-> <<>>, editingImages |-> 0, items |-> <<>>,
   now |-> [getFullYear |-> 0, getMonth |-> 0, getDate |-> 0,
            getHours |-> 0, getMinutes |-> 0, getSeconds |-> 0],
   finalPdfName |-> <<>>, fileName |-> <<>>]

\* the main screen before anything is done: no handler runs (pc), no images,
\* no dialog; alert is the last alert shown ("Closed" when the dialog was
\* closed since, which shows none) and alertName the name in it
NoPdf == [uri |-> NoUri, currentName |-> <<>>, newName |-> <<>>]

AppHome ==
  [pc |-> "home", images |-> 0, renameModalVisible |-> FALSE,
   pdfToRename |-> NoPdf, alert |-> "", alertName |-> <<>>,
   tempPdfName |-> <<>>, dirBefore |-> {}, alertAtLoad |-> "", saves |-> 0]

Init ==
  /\ \E docs \in {{}, OldNames} : fs = InitFs(docs)
  /\ clock = OldMtime + 1
  /\ docDirOk \in BOOLEAN
  /\ st = [c \in Callers |-> Idle]
  /\ app = AppHome
  /\ ed = EdClosed

\* time passes
Tick ==
  /\ clock < MaxClock
  /\ clock' = clock + 1
  /\ UNCHANGED <<fs, docDirOk, st, ed, app>>

----------------------------------------------------------------------------
(* renamePdf *)

\* the catch block of renamePdf, run by the frame that threw and by every
\* frame that awaits it
RenFail(r, msg) ==
  [r EXCEPT !.pc = "failed", !.err = [msg |-> msg, wraps |-> r.depth + 1]]

\* renamePdf up to its first await, for the frame `r` called with `name`
RenEnter(r, name) ==
  LET q == [r EXCEPT !.cleanName = sanitizeFileName(name), !.tgtExists = FALSE]
  IN  IF ~docDirOk THEN RenFail(q, "Cannot access document directory")
      ELSE [q EXCEPT !.pc = "srcInfo"]

targetUri(r) == DocUri(r.cleanName)

\* mutant: a missing source is not noticed
RenAfterSrcInfo_NoCheck(r, exists) == [r EXCEPT !.pc = "tgtInfo"]

\* after getInfoAsync(sourceUri)
RenAfterSrcInfo(r, exists) ==
  IF ~exists THEN RenFail(r, "Source PDF file not found")
  ELSE [r EXCEPT !.pc = "tgtInfo"]

\* mutant: the retries stop at a cap and the commit fails
RenAfterTgtInfo_Capped(r, timestamp) ==
  IF r.tgtExists
  THEN IF r.depth >= 5 THEN RenFail(r, "CollisionUnresolved")
       ELSE RenEnter([r EXCEPT !.depth = @ + 1], UniqueName(r.cleanName, timestamp))
  ELSE [r EXCEPT !.pc = "copy"]

\* mutant: the copy goes ahead although the target exists
RenAfterTgtInfo_AlwaysCopy(r, timestamp) == [r EXCEPT !.pc = "copy"]

\* after getInfoAsync(targetUri): the recursive call, or the copy
RenAfterTgtInfo(r, timestamp) ==
  IF r.tgtExists
  THEN RenEnter([r EXCEPT !.depth = @ + 1], UniqueName(r.cleanName, timestamp))
  ELSE [r EXCEPT !.pc = "copy"]

\* mutant: the copy leaves a file that is already there as it is
CopyResult_KeepsExisting(f, from, to, t) ==
  IF Exists(f, to) THEN f
  ELSE WriteFile(f, to, [data |-> f[from].data, mtime |-> t])

\* mutant: the copy creates the file and writes nothing into it
CopyResult_Empty(f, from, to, t) == WriteFile(f, to, [data |-> <<>>, mtime |-> t])

\* what copyAsync leaves at `to` when it succeeds
CopyResult(f, from, to, t) == WriteFile(f, to, [data |-> f[from].data, mtime |-> t])

\* what copyAsync may leave at `to` when it throws: nothing, or a prefix
CopyFailures(f, from, to, t) ==
  {f} \cup
  IF Exists(f, from)
  THEN {WriteFile(f, to, [data |-> SubSeq(f[from].data, 1, k), mtime |-> t]) :
          k \in 0..(Len(f[from].data) - 1)}
  ELSE {}

RenCall(c) ==
  /\ MayCall(c)
  /\ \E src \in SourceUris, name \in RawNames :
       st' = [st EXCEPT ![c] =
                RenEnter([Idle EXCEPT !.op = "rename", !.src = src,
                                      !.newName = name, !.prior = Returned],
                         name)]
  /\ UNCHANGED <<fs, clock, docDirOk, ed, app>>

RenSrcInfo(c) ==
  /\ st[c].op = "rename" /\ st[c].pc = "srcInfo"
  /\ \/ st' = [st EXCEPT ![c] = RenAfterSrcInfo(st[c], Exists(fs, st[c].src))]
     \/ st' = [st EXCEPT ![c] = RenFail(st[c], "platform")]
  /\ UNCHANGED <<fs, clock, docDirOk, ed, app>>

\* mutant: the existence of the target is not looked up
RenTgtInfo_NoLookup(c) ==
  /\ st[c].op = "rename" /\ st[c].pc = "tgtInfo"
  /\ st' = [st EXCEPT ![c].tgtExists = FALSE, ![c].pc = "tgtDone"]
  /\ UNCHANGED <<fs, clock, docDirOk, ed, app>>

RenTgtInfo(c) ==
  /\ st[c].op = "rename" /\ st[c].pc = "tgtInfo"
  /\ \/ st' = [st EXCEPT ![c].tgtExists = Exists(fs, targetUri(st[c])),
                         ![c].pc = "tgtDone"]
     \/ st' = [st EXCEPT ![c] = RenFail(st[c], "platform")]
  /\ UNCHANGED <<fs, clock, docDirOk, ed, app>>

RenTgtDone(c) ==
  /\ st[c].op = "rename" /\ st[c].pc = "tgtDone"
  /\ st' = [st EXCEPT ![c] = RenAfterTgtInfo(st[c], clock)]
  /\ UNCHANGED <<fs, clock, docDirOk, ed, app>>

\* mutant: the copy goes to the name first asked for, not the resolved one
RenCopy_ToRequested(c) ==
  /\ st[c].op = "rename" /\ st[c].pc = "copy"
  /\ Exists(fs, st[c].src)
  /\ fs' = CopyResult(fs, st[c].src, DocUri(sanitizeFileName(st[c].newName)), clock)
  /\ st' = [st EXCEPT ![c].pc = "delSrc"]
  /\ UNCHANGED <<clock, docDirOk, ed, app>>

\* mutant: a move instead of a copy, the source is gone when the copy fails
RenCopy_Moves(c) ==
  /\ st[c].op = "rename" /\ st[c].pc = "copy"
  /\ \/ /\ Exists(fs, st[c].src)
        /\ fs' = CopyResult(fs, st[c].src, targetUri(st[c]), clock)
        /\ st' = [st EXCEPT ![c].pc = "delSrc"]
     \/ /\ fs' \in {RemoveFile(g, st[c].src) :
                      g \in CopyFailures(fs, st[c].src, targetUri(st[c]), clock)}
        /\ st' = [st EXCEPT ![c] = RenFail(st[c], "platform")]
  /\ UNCHANGED <<clock, docDirOk, ed, app>>

RenCopy(c) ==
  /\ st[c].op = "rename" /\ st[c].pc = "copy"
  /\ \/ /\ Exists(fs, st[c].src)
        /\ fs' = CopyResult(fs, st[c].src, targetUri(st[c]), clock)
        /\ st' = [st EXCEPT ![c].pc = "delSrc"]
     \/ /\ fs' \in CopyFailures(fs, st[c].src, targetUri(st[c]), clock)
        /\ st' = [st EXCEPT ![c] = RenFail(st[c], "platform")]
  /\ UNCHANGED <<clock, docDirOk, ed, app>>

\* mutant: a failed deletion of the source fails the commit
RenDelSrc_Propagates(c) ==
  /\ st[c].op = "rename" /\ st[c].pc = "delSrc"
  /\ \/ /\ fs' = RemoveFile(fs, st[c].src)
        /\ st' = [st EXCEPT ![c].pc = "done", ![c].retUri = targetUri(st[c])]
     \/ /\ fs' = fs
        /\ st' = [st EXCEPT ![c] = RenFail(st[c], "platform")]
  /\ UNCHANGED <<clock, docDirOk, ed, app>>

\* deleteAsync(sourceUri, {idempotent: true}) in its own try/catch, then return
RenDelSrc(c) ==
  /\ st[c].op = "rename" /\ st[c].pc = "delSrc"
  /\ \/ fs' = RemoveFile(fs, st[c].src)
     \/ fs' = fs
  /\ st' = [st EXCEPT ![c].pc = "done", ![c].retUri = targetUri(st[c])]
  /\ UNCHANGED <<clock, docDirOk, ed, app>>

----------------------------------------------------------------------------
(* getPdfFileInfo *)

\* the catch blocks of getPdfFileInfo and deletePdfFile rethrow the error
Rethrow(r, msg) == [r EXCEPT !.pc = "failed", !.err = [msg |-> msg, wraps |-> 0]]

\* mutant: a missing file is reported as an empty one
InfoAfterGetInfo_NoCheck(r, exists, file) ==
  [r EXCEPT !.pc = "done",
            !.retInfo = [size |-> OrElse(Len(file.data), 0),
                         modificationTime |-> file.mtime,
                         filename |-> r.uri.n]]

\* after getInfoAsync(pdfUri) returned, the file being `file` when it exists
InfoAfterGetInfo(r, exists, file) ==
  IF ~exists THEN Rethrow(r, "PDF file not found")
  ELSE [r EXCEPT !.pc = "done",
                 !.retInfo = [size |-> OrElse(Len(file.data), 0),
                              modificationTime |-> file.mtime,
                              filename |-> r.uri.n]]

InfoCall(c) ==
  /\ MayCall(c)
  /\ \E u \in AskedUris :
       st' = [st EXCEPT ![c] = [Idle EXCEPT !.op = "info", !.pc = "getInfo",
                                            !.uri = u, !.prior = Returned]]
  /\ UNCHANGED <<fs, clock, docDirOk, ed, app>>

InfoGetInfo(c) ==
  /\ st[c].op = "info" /\ st[c].pc = "getInfo"
  /\ \/ st' = [st EXCEPT ![c] =
                 InfoAfterGetInfo(st[c], Exists(fs, st[c].uri),
                                  IF Exists(fs, st[c].uri) THEN fs[st[c].uri]
                                  ELSE NoFile)]
     \/ st' = [st EXCEPT ![c] = Rethrow(st[c], "platform")]
  /\ UNCHANGED <<fs, clock, docDirOk, ed, app>>

----------------------------------------------------------------------------
(* deletePdfFile *)

\* mutant: deleteAsync is called whether or not the file exists
DelAfterGetInfo_AlwaysDelete(r, exists) == [r EXCEPT !.pc = "delete"]

\* after getInfoAsync(pdfUri) returned
DelAfterGetInfo(r, exists) ==
  IF exists THEN [r EXCEPT !.pc = "delete"]
  ELSE [r EXCEPT !.pc = "done", !.retBool = FALSE]

DelCall(c) ==
  /\ MayCall(c)
  /\ \E u \in AskedUris :
       st' = [st EXCEPT ![c] = [Idle EXCEPT !.op = "delete", !.pc = "getInfo",
                                            !.uri = u, !.prior = Returned]]
  /\ UNCHANGED <<fs, clock, docDirOk, ed, app>>

DelGetInfo(c) ==
  /\ st[c].op = "delete" /\ st[c].pc = "getInfo"
  /\ \/ st' = [st EXCEPT ![c] = DelAfterGetInfo(st[c], Exists(fs, st[c].uri))]
     \/ st' = [st EXCEPT ![c] = Rethrow(st[c], "platform")]
  /\ UNCHANGED <<fs, clock, docDirOk, ed, app>>

\* deleteAsync(pdfUri, {idempotent: true}): a missing file is no error
DelDelete(c) ==
  /\ st[c].op = "delete" /\ st[c].pc = "delete"
  /\ \/ /\ fs' = RemoveFile(fs, st[c].uri)
        /\ st' = [st EXCEPT ![c].pc = "done", ![c].retBool = TRUE]
     \/ /\ fs' = fs
        /\ st' = [st EXCEPT ![c] = Rethrow(st[c], "platform")]
  /\ UNCHANGED <<clock, docDirOk, ed, app>>

----------------------------------------------------------------------------
(* listAllPdfs *)

\* the orders in which readDirectoryAsync may enumerate the names
Enumerations(names) ==
  {e \in [1..Cardinality(names) -> names] : \A n \in names : \E i \in DOMAIN e : e[i] = n}

\* mutant: the extension is compared case-sensitively
IsPdfName_CaseSensitive(file) == EndsWith(file, PdfExt)

\* file.toLowerCase().endsWith(".pdf")
IsPdfName(file) == EndsWith(ToLowerCase(file), PdfExt)

\* files.filter((file) => file.toLowerCase().endsWith(".pdf"))
RECURSIVE FilterPdf(_)
FilterPdf(s) ==
  IF s = <<>> THEN <<>>
  ELSE (IF IsPdfName(Head(s)) THEN <<Head(s)>> ELSE <<>>) \o FilterPdf(Tail(s))

Pending == [k |-> "pending", name |-> <<>>, modificationTime |-> 0, rawSize |-> 0,
            idTime |-> 0]
\* the two ways the map callback returns null: "File no longer exists" and,
\* from its catch block, "Error processing file"
Gone == [Pending EXCEPT !.k = "gone"]
Threw == [Pending EXCEPT !.k = "threw"]

\* the object the map callback returns for an existing file; its id is
\* `${file}_${fileInfo.modificationTime || Date.now()}`
ListEntry(name, file, now) ==
  [k |-> "ok", name |-> name,
   modificationTime |-> OrElse(file.mtime, 0),
   rawSize |-> OrElse(Len(file.data), 0),
   idTime |-> OrElse(file.mtime, now)]

\* the comparator of the sort: negative when a goes before b
CompareEntries(a, b) == OrElse(b.modificationTime, 0) - OrElse(a.modificationTime, 0)

\* Array.prototype.sort is stable: x goes behind every entry it does not precede
RECURSIVE InsertSorted(_, _)
InsertSorted(sorted, x) ==
  IF sorted = <<>> THEN <<x>>
  ELSE IF CompareEntries(x, Head(sorted)) < 0 THEN <<x>> \o sorted
  ELSE <<Head(sorted)>> \o InsertSorted(Tail(sorted), x)

RECURSIVE SortEntries(_)
SortEntries(s) ==
  IF s = <<>> THEN <<>>
  ELSE InsertSorted(SortEntries(SubSeq(s, 1, Len(s) - 1)), s[Len(s)])

\* pdfsWithInfo.filter(Boolean)
RECURSIVE FilterBoolean(_)
FilterBoolean(s) ==
  IF s = <<>> THEN <<>>
  ELSE (IF Head(s).k = "ok" THEN <<Head(s)>> ELSE <<>>) \o FilterBoolean(Tail(s))

\* the filter, then the sort
ListResult(infos) == SortEntries(FilterBoolean(infos))

\* one getInfoAsync of the Promise.all has settled with `res`; the last one to
\* settle resumes listAllPdfs, which filters, sorts and returns
ListSettle(r, i, res) ==
  LET infos == [r.infos EXCEPT ![i] = res]
  IN  IF \E j \in DOMAIN infos : infos[j].k = "pending"
      THEN [r EXCEPT !.infos = infos]
      ELSE [r EXCEPT !.infos = infos, !.pc = "done", !.retList = ListResult(infos)]

\* after readDirectoryAsync returned `files`
ListAfterReadDir(r, files) ==
  LET pdfFiles == FilterPdf(files)
  IN  IF pdfFiles = <<>>
      THEN [r EXCEPT !.pc = "done", !.retList = <<>>]
      ELSE [r EXCEPT !.pdfFiles = pdfFiles, !.pc = "getInfos",
                     !.infos = [j \in DOMAIN pdfFiles |-> Pending]]

ListCall(c) ==
  /\ MayList(c)
  /\ st' = [st EXCEPT ![c] =
              [Idle EXCEPT !.op = "list", !.prior = Returned,
                           !.pc = IF docDirOk THEN "readDir" ELSE "done"]]
  /\ UNCHANGED <<fs, clock, docDirOk, ed, app>>

\* a throw of readDirectoryAsync reaches the outer catch, which logs it (err)
\* and returns []
ListReadDir(c) ==
  /\ st[c].op = "list" /\ st[c].pc = "readDir"
  /\ \/ \E files \in Enumerations(DirNames(fs)) :
          st' = [st EXCEPT ![c] = ListAfterReadDir(st[c], files)]
     \/ st' = [st EXCEPT ![c].pc = "done", ![c].retList = <<>>,
                         ![c].err = [msg |-> "platform", wraps |-> 0]]
  /\ UNCHANGED <<fs, clock, docDirOk, ed, app>>

\* The map callback of one file: its getInfoAsync, and what it returns.  The
\* reads of one listing change nothing and the other caller in flight changes
\* at most one managed file, so the reads are let settle in index order: every
\* combination of what each read sees is still reached.
ListGetInfo(c) ==
  /\ st[c].op = "list" /\ st[c].pc = "getInfos"
  /\ \E i \in DOMAIN st[c].infos :
       /\ st[c].infos[i].k = "pending"
       /\ \A j \in 1..(i - 1) : st[c].infos[j].k # "pending"
       /\ LET file == st[c].pdfFiles[i]
              fileUri == DocUri(file)
          IN  \/ st' = [st EXCEPT ![c] =
                          ListSettle(st[c], i,
                                     IF Exists(fs, fileUri)
                                     THEN ListEntry(file, fs[fileUri], clock)
                                     ELSE Gone)]
              \/ st' = [st EXCEPT ![c] = ListSettle(st[c], i, Threw)]
  /\ UNCHANGED <<fs, clock, docDirOk, ed, app>>

----------------------------------------------------------------------------

Next ==
  \/ Tick
  \/ \E c \in Callers :
       \/ RenCall(c)
       \/ RenSrcInfo(c)
       \/ RenTgtInfo(c)
       \/ RenTgtDone(c)
       \/ RenCopy(c)
       \/ RenDelSrc(c)
       \/ InfoCall(c)
       \/ InfoGetInfo(c)
       \/ DelCall(c)
       \/ DelGetInfo(c)
       \/ DelDelete(c)
       \/ ListCall(c)
       \/ ListReadDir(c)
       \/ ListGetInfo(c)

Spec == Init /\ [][Next]_vars

----------------------------------------------------------------------------
(* Vocabulary of the properties *)

Renamed(c) == st[c].op = "rename" /\ st[c].pc = "done"

\* the call of p had returned when q called
Before(p, q) == p \in st[q].prior

\* a listing in which no platform call threw
CleanList(l) ==
  /\ st[l].op = "list" /\ st[l].pc = "done" /\ docDirOk
  /\ st[l].err = NoErr
  /\ \A i \in DOMAIN st[l].infos : st[l].infos[i].k # "threw"

\* no caller has asked deletePdfFile for u
NoDeleteOf(u) == \A d \in Callers : st[d].op = "delete" => st[d].uri # u

ListedNames(l) == {st[l].retList[i].name : i \in DOMAIN st[l].retList}

\* caller c takes a step from position `from`
Steps(c, from) == st[c].pc = from /\ st'[c] # st[c]

\* the uris whose file a step creates, changes or removes
Touched == {u \in DOMAIN fs \cup DOMAIN fs' :
              ~(u \in DOMAIN fs /\ u \in DOMAIN fs' /\ fs'[u] = fs[u])}

----------------------------------------------------------------------------
(* The two sanitizers on their own: the editor's sanitizePdfName and the     *)
(* service's sanitizeFileName applied to the text of the name field.         *)

\* the longest run of letters in a typed name, and the largest image count
MaxPad == 101
MaxImages == 12

\* n letters
Pad(n) == [i \in 1..n |-> "a"]

PadLens == {0} \cup ((maxLength - 5)..MaxPad)

EdChars == ReservedChars \cup ControlChars \cup {" ", ".", "_", "P"}

Prefixes ==
  {<<>>} \cup {<<x>> : x \in EdChars}
         \cup {<<x, y>> : x, y \in {" ", ".", "/", "b"}}

Suffixes ==
  {<<>>, PdfExt, <<".", "P", "D", "F">>, <<".", "p", "d", "f", ".">>,
   <<".", "p", "d", "f", " ">>, <<" ", ".">>}

MyReport == <<"M", "y", "/", "R", "e", "p", "o", "r", "t", ":", "2", "0", "2", "4">>

\* the texts typed into the name field
TypedNames ==
  {p \o Pad(n) \o x : p \in Prefixes, n \in PadLens, x \in Suffixes} \cup {MyReport}

\* the dates of the device
Dates ==
  {[getFullYear |-> 2026, getMonth |-> 0, getDate |-> 1,
    getHours |-> 0, getMinutes |-> 5, getSeconds |-> 9],
   [getFullYear |-> 2026, getMonth |-> 10, getDate |-> 30,
    getHours |-> 23, getMinutes |-> 59, getSeconds |-> 10]}

NamingInit ==
  /\ fs = InitFs({})
  /\ clock = OldMtime + 1
  /\ docDirOk = TRUE
  /\ st = [c \in Callers |-> Idle]
  /\ app = AppHome
  /\ \E name \in TypedNames, n \in {0, 1, MaxImages}, d \in Dates :
       ed = [EdClosed EXCEPT !.pc = "typed", !.pdfName = name,
                             !.editingImages = n, !.now = d]

\* the editor makes the name to save under
EdSanitize ==
  /\ ed.pc = "typed"
  /\ ed' = [ed EXCEPT !.pc = "sanitized",
                      !.finalPdfName =
                         sanitizePdfName(ed.pdfName, ed.editingImages, ed.now)]
  /\ UNCHANGED <<fs, clock, docDirOk, st, app>>

\* the service makes the file name of the name it is given: the editor's
\* name, or the typed text (App.tsx passes what the rename dialog holds)
SvcSanitize ==
  /\ ed.pc \in {"typed", "sanitized"}
  /\ ed' = [ed EXCEPT !.pc = IF ed.pc = "typed" THEN "fileOfTyped" ELSE "fileOfFinal",
                      !.fileName =
                         sanitizeFileName(IF ed.pc = "typed" THEN ed.pdfName
                                          ELSE ed.finalPdfName)]
  /\ UNCHANGED <<fs, clock, docDirOk, st, app>>

NamingNext == EdSanitize \/ SvcSanitize

NamingSpec == NamingInit /\ [][NamingNext]_vars

----------------------------------------------------------------------------
(* The collision retry of renamePdf on its own: one commit against every    *)
(* directory made of the names its retries can try, under a clock that may  *)
(* stand still, advance or go back between any two steps.                   *)

\* the name a retry at a clock value of `times` makes of a name of `names`
RetryNames(names, times) ==
  {sanitizeFileName(UniqueName(n, t)) : n \in names, t \in times}

\* the first choice "a.pdf" and the names of its first and second retry
ResolveNames ==
  LET times == (OldMtime + 1)..MaxClock
      first == {sanitizeFileName(<<"a">>)}
      second == RetryNames(first, times)
  IN  first \cup second \cup RetryNames(second, times)

\* the longest run of taken candidates a directory starts with
MaxChain == 7

\* k suffixes of a clock that stands still
RECURSIVE ChainSuffixes(_)
ChainSuffixes(k) ==
  IF k = 0 THEN <<>>
  ELSE ChainSuffixes(k - 1) \o <<"_">> \o ToDigits(OldMtime + 1)

\* the candidate of the k-th retry for the name "a" when the clock stands
\* still: a.pdf, a_2.pdf, a_2_2.pdf, ...
ChainName(k) == <<"a">> \o ChainSuffixes(k) \o PdfExt

\* the directories holding the first k of those candidates
ChainDirs == {{ChainName(i) : i \in 0..(k - 1)} : k \in 0..MaxChain}

ResolveInit ==
  /\ \E docs \in (SUBSET ResolveNames) \cup ChainDirs : fs = InitFs(docs)
  /\ clock \in (OldMtime + 1)..MaxClock
  /\ docDirOk = TRUE
  /\ st = [c \in Callers |-> Idle]
  /\ app = AppHome
  /\ ed = EdClosed

\* Date.now() may return any value at the next reading
ClockJumps ==
  /\ \E t \in (OldMtime + 1)..MaxClock : t # clock /\ clock' = t
  /\ UNCHANGED <<fs, docDirOk, st, ed, app>>

\* the steps of the commit up to its copy
ResolveStep ==
  \/ RenCall("c1")
  \/ RenSrcInfo("c1")
  \/ RenTgtInfo("c1")
  \/ RenTgtDone("c1")

ResolveNext == ClockJumps \/ ResolveStep

ResolveSpec == ResolveInit /\ [][ResolveNext]_vars

----------------------------------------------------------------------------
(* The images of the editor screen (src/unnamed/part_000): rotation and      *)
(* removal of the images handed over by the picker.                          *)

\* the most images handed to the editor
MaxItems == 3

\* an image without the optional field rotation
NoRotation == -1

\* an image of the picker (imagePicker.ts): its id is made of the time and a
\* random number, so the ids differ
PickedImage(i) ==
  [id |-> i, uri |-> <<"u", ToDigits(i)[1]>>, fileName |-> <<"f", ToDigits(i)[1]>>,
   width |-> 4 * i, height |-> 3 * i, rotation |-> NoRotation]

\* img.rotation || 0
CurrentRotation(img) == IF img.rotation = NoRotation THEN 0 ELSE OrElse(img.rotation, 0)

\* mutant: the rotation is not reduced modulo 360
NewRotation_NoWrap(currentRotation, degrees) == currentRotation + degrees

\* (currentRotation + degrees) % 360
NewRotation(currentRotation, degrees) == (currentRotation + degrees) % 360

EditorInit ==
  /\ fs = InitFs({})
  /\ clock = OldMtime + 1
  /\ docDirOk = TRUE
  /\ st = [c \in Callers |-> Idle]
  /\ app = AppHome
  /\ \E n \in 1..MaxItems, d \in Dates :
       ed = [EdClosed EXCEPT !.pc = "editing",
                             !.items = [i \in 1..n |-> PickedImage(i)],
                             !.editingImages = n,
                             !.now = d,
                             !.pdfName = generateDefaultPdfName(n, d)]

\* the Rotate button of an image: handleRotateImage(item.id, 90)
handleRotateImage ==
  /\ ed.pc = "editing"
  /\ \E k \in DOMAIN ed.items :
       LET imageId == ed.items[k].id
       IN  ed' = [ed EXCEPT !.items =
                    [j \in DOMAIN ed.items |->
                       IF ed.items[j].id = imageId
                       THEN [ed.items[j] EXCEPT !.rotation =
                               NewRotation(CurrentRotation(ed.items[j]), 90)]
                       ELSE ed.items[j]]]
  /\ UNCHANGED <<fs, clock, docDirOk, st, app>>

\* the Remove button of an image, confirmed: handleRemoveImage(item.id)
handleRemoveImage ==
  /\ ed.pc = "editing"
  /\ \E k \in DOMAIN ed.items :
       LET imageId == ed.items[k].id
           Kept(img) == img.id # imageId
           kept == SelectSeq(ed.items, Kept)
       IN  ed' = [ed EXCEPT !.items = kept,
                            !.editingImages = Len(kept),
                            !.pdfName =
                               IF ed.editingImages > 1
                               THEN generateDefaultPdfName(ed.editingImages - 1, ed.now)
                               ELSE @]
  /\ UNCHANGED <<fs, clock, docDirOk, st, app>>

EditorNext == handleRotateImage \/ handleRemoveImage

EditorSpec == EditorInit /\ [][EditorNext]_vars

----------------------------------------------------------------------------
(* The main screen (src/App.tsx): a PDF is generated under a temporary name, *)
(* the save dialog asks for its name, and the user saves or discards it.     *)
(* The screen's renamePdf calls are those of caller c1, its getPdfFileInfo   *)
(* is c2's and its loadPdfs is c3's.                                         *)

\* the most presses of Save PDF
MaxSaves == 1

\* the file Print.printToFileAsync writes
PrintName == <<"s", "1">>

\* `temp_${Date.now()}.pdf`
TempName(now) == <<"t", "e", "m", "p", "_">> \o ToDigits(now) \o PdfExt

\* `document_${new Date().toISOString().slice(0, 10)}.pdf`
DocumentName(d) ==
  <<"d", "o", "c", "u", "m", "e", "n", "t", "_">> \o ToDigits(d.getFullYear)
    \o <<"-">> \o PadStart2(d.getMonth + 1) \o <<"-">> \o PadStart2(d.getDate)
    \o PdfExt

\* the hint under the name field: 'File will be saved as: ...'
FileWillBeSavedAs(newName) ==
  IF EndsWith(newName, PdfExt) THEN newName ELSE newName \o PdfExt

\* the texts typed into the name field of the save dialog
DialogNames ==
  {<<" ">>, <<"a">>, <<"x", ".", "p", "d", "f">>, <<"m", "y", " ", "r">>}

\* the documents stored when the screen starts
AppDocs == {{}, {<<"a", ".", "p", "d", "f">>}}

AppInit ==
  /\ \E docs \in AppDocs :
       fs = [u \in {DocUri(n) : n \in docs} |-> Rendered(u.n, OldMtime)]
  /\ clock = OldMtime + 1
  /\ docDirOk \in BOOLEAN
  /\ st = [c \in Callers |-> Idle]
  /\ \E n \in {0, 2} : app = [AppHome EXCEPT !.images = n]
  /\ ed = EdClosed

\* handleGeneratePdf up to the first await inside renamePdf: the renderer
\* writes its file (or throws) and generatePdf calls renamePdf with the
\* temporary name
handleGeneratePdf ==
  /\ app.pc = "home" /\ st["c1"].pc = "idle" /\ ~app.renameModalVisible
  /\ \/ /\ app.images = 0
        /\ app' = [app EXCEPT !.alert = "Please add at least one image"]
        /\ UNCHANGED <<fs, st>>
     \/ /\ app.images > 0
        /\ \/ /\ fs' = WriteFile(fs, TmpUri(PrintName), Rendered(PrintName, clock))
              /\ st' = [st EXCEPT !["c1"] =
                          RenEnter([Idle EXCEPT !.op = "rename",
                                                !.src = TmpUri(PrintName),
                                                !.newName = TempName(clock),
                                                !.prior = Returned],
                                   TempName(clock))]
              /\ app' = [app EXCEPT !.pc = "generating",
                                    !.tempPdfName = TempName(clock),
                                    !.dirBefore = DirNames(fs)]
           \/ /\ app' = [app EXCEPT !.alert = "Failed to generate PDF"]
              /\ UNCHANGED <<fs, st>>
  /\ UNCHANGED <<clock, docDirOk, ed>>

\* handleGeneratePdf after generatePdf: getPdfFileInfo(pdfUri) is called, or
\* the catch block shows the error
GenRenamed ==
  /\ app.pc = "generating" /\ st["c1"].pc \in {"done", "failed"}
  /\ IF st["c1"].pc = "done"
     THEN /\ st' = [st EXCEPT !["c2"] =
                      [Idle EXCEPT !.op = "info", !.pc = "getInfo",
                                   !.uri = st["c1"].retUri,
                                   !.prior = Returned]]
          /\ app' = [app EXCEPT !.pc = "info"]
     ELSE /\ app' = [app EXCEPT !.pc = "home", !.alert = "Failed to generate PDF"]
          /\ st' = st
  /\ UNCHANGED <<fs, clock, docDirOk, ed>>

\* handleGeneratePdf after getPdfFileInfo: the save dialog opens with the
\* generated file and a name of the day, and the images are cleared
GenShow ==
  /\ app.pc = "info" /\ st["c2"].pc \in {"done", "failed"}
  /\ IF st["c2"].pc = "done"
     THEN \E d \in Dates :
            app' = [app EXCEPT !.pc = "home",
                               !.pdfToRename =
                                  [uri |-> st["c1"].retUri,
                                   currentName |-> app.tempPdfName,
                                   newName |-> DocumentName(d)],
                               !.renameModalVisible = TRUE,
                               !.images = 0]
     ELSE app' = [app EXCEPT !.pc = "home", !.alert = "Failed to generate PDF"]
  /\ UNCHANGED <<fs, clock, docDirOk, st, ed>>

\* the name field of the save dialog
onChangeText ==
  /\ app.pc = "home" /\ app.renameModalVisible /\ app.pdfToRename # NoPdf
  /\ \E text \in DialogNames :
       app' = [app EXCEPT !.pdfToRename.newName = text]
  /\ UNCHANGED <<fs, clock, docDirOk, st, ed>>

\* the Discard button, confirmed
handleDiscardPdf ==
  /\ app.pc = "home" /\ app.renameModalVisible
  /\ app' = [app EXCEPT !.renameModalVisible = FALSE, !.pdfToRename = NoPdf,
                        !.alert = "Discarded"]
  /\ UNCHANGED <<fs, clock, docDirOk, st, ed>>

\* the close button and the back button of the save dialog
onRequestClose ==
  /\ app.pc = "home" /\ app.renameModalVisible
  /\ app' = [app EXCEPT !.renameModalVisible = FALSE, !.alert = "Closed"]
  /\ UNCHANGED <<fs, clock, docDirOk, st, ed>>

\* the Save PDF button: handleRenamePdf up to the first await inside
\* renamePdf
handleRenamePdf ==
  /\ app.pc = "home" /\ app.renameModalVisible /\ app.saves < MaxSaves
  /\ IF app.pdfToRename = NoPdf \/ Trim(app.pdfToRename.newName) = <<>>
     THEN /\ app' = [app EXCEPT !.alert = "Please enter a valid PDF name"]
          /\ st' = st
     ELSE /\ st' = [st EXCEPT !["c1"] =
                      RenEnter([Idle EXCEPT !.op = "rename",
                                            !.src = app.pdfToRename.uri,
                                            !.newName = app.pdfToRename.newName,
                                            !.prior = Returned \ {"c1"}],
                               app.pdfToRename.newName)]
          /\ app' = [app EXCEPT !.pc = "renaming", !.saves = @ + 1]
  /\ UNCHANGED <<fs, clock, docDirOk, ed>>

\* handleRenamePdf after renamePdf: the dialog closes and the success alert
\* names the file, or the catch block shows the error and the dialog stays
RenameReturned ==
  /\ app.pc = "renaming" /\ st["c1"].pc \in {"done", "failed"}
  /\ IF st["c1"].pc = "done"
     THEN app' = [app EXCEPT !.pc = "home", !.renameModalVisible = FALSE,
                             !.pdfToRename = NoPdf, !.alert = "Success",
                             !.alertName = app.pdfToRename.newName]
     ELSE app' = [app EXCEPT !.pc = "home", !.alert = "Failed to rename PDF"]
  /\ UNCHANGED <<fs, clock, docDirOk, st, ed>>

\* loadPdfs once the save dialog is gone: after a save (line 160), or at the
\* mount of the screen when the app is started again
loadPdfs ==
  /\ app.pc = "home" /\ st["c3"].pc = "idle"
  /\ app.alert \in {"Discarded", "Closed", "Success"}
  /\ st' = [st EXCEPT !["c3"] =
              [Idle EXCEPT !.op = "list", !.prior = Returned,
                           !.pc = IF docDirOk THEN "readDir" ELSE "done"]]
  /\ app' = [app EXCEPT !.alertAtLoad = app.alert]
  /\ UNCHANGED <<fs, clock, docDirOk, ed>>

\* the platform steps of the calls the screen awaits
AppAwait ==
  \/ RenSrcInfo("c1") \/ RenTgtInfo("c1") \/ RenTgtDone("c1")
  \/ RenCopy("c1") \/ RenDelSrc("c1")
  \/ InfoGetInfo("c2")
  \/ ListReadDir("c3") \/ ListGetInfo("c3")

AppNext ==
  \/ Tick
  \/ handleGeneratePdf
  \/ GenRenamed
  \/ GenShow
  \/ onChangeText
  \/ handleDiscardPdf
  \/ onRequestClose
  \/ handleRenamePdf
  \/ RenameReturned
  \/ loadPdfs
  \/ AppAwait

AppSpec == AppInit /\ [][AppNext]_vars

----------------------------------------------------------------------------
(* C1 *)

\* C1: two renamePdf calls made one after the other with the same desired
\* name, each with its own source, that both succeed, the first document not
\* being deleted in between, return two distinct uris, and a later listing in
\* which no platform call threw holds both names.
C1_SequentialCommitsDistinct ==
  \A p, q \in Callers :
    (/\ Renamed(p) /\ Renamed(q) /\ Before(p, q)
     /\ st[p].newName = st[q].newName /\ st[p].src # st[q].src
     /\ NoDeleteOf(st[p].retUri))
    => /\ st[p].retUri # st[q].retUri
       /\ \A l \in Callers :
            (CleanList(l) /\ Before(p, l) /\ Before(q, l))
            => {st[p].retUri.n, st[q].retUri.n} \subseteq ListedNames(l)

C1_Witness ==
  \E p, q, l \in Callers :
    /\ Renamed(p) /\ Renamed(q) /\ Before(p, q)
    /\ st[p].newName = st[q].newName /\ st[p].src # st[q].src
    /\ CleanList(l) /\ Before(p, l) /\ Before(q, l)
    /\ st[p].retUri # st[q].retUri
    /\ {st[p].retUri.n, st[q].retUri.n} \subseteq ListedNames(l)

----------------------------------------------------------------------------
(* C2 *)

\* the copy step of c replaces a file of the managed directory that holds
\* (part of) another document than c's source
Overwrites(c) ==
  LET t == targetUri(st[c])
  IN  /\ st[c].op = "rename" /\ Steps(c, "copy")
      /\ Exists(fs, t) /\ t \in Touched
      /\ \E b \in Range(fs[t].data) : b \notin Range(fs[st[c].src].data)

\* the calls of c and q overlap in time
Overlap(c, q) ==
  /\ c # q /\ st[c].pc # "idle" /\ st[q].pc # "idle"
  /\ ~Before(c, q) /\ ~Before(q, c)

\* C2 as claimed: in every execution, interleaved ones included, the copy of
\* a commit never replaces an existing file that holds a different document.
C2_NeverOverwrites ==
  [][\A c \in Callers : ~Overwrites(c)]_vars

\* C2 amended: the copy of a commit replaces an existing file that holds a
\* different document only when another renamePdf call, overlapping this one
\* and resolved to the same name, has copied after this call's existence
\* check: a call that overlaps no other call never overwrites.
C2_OverwritesOnlyWhenOverlapping ==
  [][\A c \in Callers :
       Overwrites(c) =>
         \E q \in Callers :
           /\ Overlap(c, q) /\ st[q].op = "rename"
           /\ targetUri(st[q]) = targetUri(st[c])
           /\ st[q].pc \in {"delSrc", "done"}]_vars

\* a call that met a collision, overlapped no other call, and has copied to
\* the renamed candidate while the colliding document is intact
C2_Witness ==
  \E c \in Callers :
    /\ st[c].op = "rename" /\ st[c].pc = "delSrc" /\ st[c].depth > 0
    /\ \A q \in Callers \ {c} : st[q].pc = "idle" \/ Before(q, c)
    /\ LET first == DocUri(sanitizeFileName(st[c].newName))
       IN  /\ Exists(fs, first) /\ Exists(fs, targetUri(st[c]))
           /\ fs[first].data # fs[targetUri(st[c])].data

----------------------------------------------------------------------------
(* C4 *)

MissingSource(c) ==
  /\ st[c].op = "rename" /\ st[c].pc = "failed" /\ st[c].depth = 0
  /\ st[c].err = [msg |-> "Source PDF file not found", wraps |-> 1]

\* C4: when the document directory is available and the source does not
\* exist, renamePdf fails with "Failed to rename PDF: Source PDF file not
\* found" (or with the error getInfoAsync itself threw), neither the call nor
\* the check changes any file, and a listing after the call returns the
\* entries a listing before it returned (in the same order when the platform
\* enumerates the directory in the same order).
C4_MissingSourceFails ==
  /\ [][\A c \in Callers :
          /\ (st[c].pc = "idle" /\ st'[c].op = "rename") => fs' = fs
          /\ (/\ st[c].op = "rename" /\ Steps(c, "srcInfo") /\ st[c].depth = 0
              /\ ~Exists(fs, st[c].src))
             => /\ st'[c].pc = "failed"
                /\ st'[c].err.wraps = 1
                /\ st'[c].err.msg \in {"Source PDF file not found", "platform"}
                /\ fs' = fs]_vars
  /\ [](\A l, c, m \in Callers :
          (/\ MissingSource(c) /\ CleanList(l) /\ CleanList(m)
           /\ Before(l, c) /\ Before(c, m))
          => /\ Range(st[m].retList) = Range(st[l].retList)
             /\ st[m].pdfFiles = st[l].pdfFiles => st[m].retList = st[l].retList)

C4_Witness ==
  \E l, c, m \in Callers :
    /\ MissingSource(c) /\ CleanList(l) /\ CleanList(m)
    /\ Before(l, c) /\ Before(c, m)
    /\ st[l].retList # <<>> /\ st[m].retList = st[l].retList
    /\ ~Exists(fs, st[c].src)

----------------------------------------------------------------------------
(* C3 *)

\* C3: the existence check of renamePdf reports what the directory holds at
\* that moment, renamePdf goes on to copy only when the check of that very
\* name reported "not exists", and the copy writes no other name.
C3_CopyTargetWasAbsentAtCheck ==
  [][\A c \in Callers : st[c].op = "rename" =>
       /\ (Steps(c, "tgtInfo") /\ st'[c].pc = "tgtDone")
          => /\ st'[c].tgtExists = Exists(fs, DocUri(st[c].cleanName))
             /\ st'[c].cleanName = st[c].cleanName
       /\ (Steps(c, "tgtDone") /\ st'[c].pc = "copy")
          => /\ ~st[c].tgtExists
             /\ st'[c].cleanName = st[c].cleanName
       /\ Steps(c, "copy")
          => /\ ~st[c].tgtExists
             /\ Touched \subseteq {DocUri(st[c].cleanName)}]_vars

\* a renamePdf whose resolver renamed and whose copy is done
C3_Witness ==
  \E c \in Callers :
    /\ st[c].op = "rename" /\ st[c].pc = "delSrc" /\ st[c].depth > 0
    /\ Exists(fs, DocUri(st[c].cleanName))

----------------------------------------------------------------------------
(* C5 *)

\* C5 as claimed: when the copy step of a commit fails, whatever it wrote at
\* the destination is removed before the error reaches the caller.
C5_FailedCopyLeavesNoArtifact ==
  [][\A c \in Callers :
       (st[c].op = "rename" /\ Steps(c, "copy") /\ st'[c].pc = "failed")
       => ~(targetUri(st[c]) \in Touched /\ Exists(fs', targetUri(st[c])))]_vars

----------------------------------------------------------------------------
(* C6 *)

\* C6: a copy that does not throw leaves the source's content at the
\* destination and goes on to the deletion of the source; whether that
\* deletion succeeds or throws, renamePdf returns the destination uri, and
\* the step changes no file but the source.
C6_CleanupFailureSwallowed ==
  [][\A c \in Callers : st[c].op = "rename" =>
       /\ (Steps(c, "copy") /\ st'[c].pc # "failed")
          => /\ st'[c].pc = "delSrc"
             /\ Exists(fs', targetUri(st[c]))
             /\ fs'[targetUri(st[c])].data = fs[st[c].src].data
       /\ Steps(c, "delSrc")
          => /\ st'[c].pc = "done"
             /\ st'[c].retUri = targetUri(st[c])
             /\ st'[c].err = NoErr
             /\ Touched \subseteq {st[c].src}]_vars

\* a commit that returned its destination although its source is still there
C6_Witness ==
  \E c \in Callers :
    /\ Renamed(c) /\ Exists(fs, st[c].src)
    /\ st[c].retUri = targetUri(st[c]) /\ Exists(fs, st[c].retUri)
    /\ fs[st[c].retUri].data = fs[st[c].src].data

----------------------------------------------------------------------------
(* C7 *)

Deleted(c) == st[c].op = "delete" /\ st[c].pc = "done"

\* C7: deletePdfFile on a uri whose file exists removes that file and returns
\* true; on a uri whose file does not exist it returns false and changes
\* nothing; it throws only what a platform call threw.  Two deletions of the
\* same document made one after the other, the first returning true, with no
\* commit to that name in between: the second returns false.
C7_DeleteIdempotent ==
  /\ [][\A c \in Callers : st[c].op = "delete" =>
          /\ Steps(c, "getInfo")
             => /\ fs' = fs
                /\ st'[c].pc = "failed" => st'[c].err.msg = "platform"
                /\ st'[c].pc # "failed" =>
                     IF Exists(fs, st[c].uri) THEN st'[c].pc = "delete"
                     ELSE st'[c].pc = "done" /\ st'[c].retBool = FALSE
          /\ Steps(c, "delete")
             => \/ /\ st'[c].pc = "done" /\ st'[c].retBool = TRUE
                   /\ ~Exists(fs', st[c].uri)
                   /\ Touched \subseteq {st[c].uri}
                \/ /\ st'[c].pc = "failed" /\ st'[c].err.msg = "platform"
                   /\ fs' = fs]_vars
  /\ [](\A p, q \in Callers :
          (/\ Deleted(p) /\ Deleted(q) /\ Before(p, q)
           /\ st[p].uri = st[q].uri /\ st[p].retBool)
          => ~st[q].retBool)

\* the same document deleted twice in sequence: true, then false
C7_Witness ==
  \E p, q \in Callers :
    /\ Deleted(p) /\ Deleted(q) /\ Before(p, q)
    /\ st[p].uri = st[q].uri /\ st[p].retBool /\ ~st[q].retBool
    /\ ~Exists(fs, st[p].uri)

----------------------------------------------------------------------------
(* C8 *)

\* the characters of the model's names in code-point order
CodePointOrder ==
  <<" ", "-", ".", "/">> \o DigitSeq \o UpperSeq \o <<"_">> \o LowerSeq

CodePoint(ch) == CHOOSE i \in DOMAIN CodePointOrder : CodePointOrder[i] = ch

\* a < b as strings
RECURSIVE NameBefore(_, _)
NameBefore(a, b) ==
  IF b = <<>> THEN FALSE
  ELSE IF a = <<>> THEN TRUE
  ELSE IF Head(a) # Head(b) THEN CodePoint(Head(a)) < CodePoint(Head(b))
  ELSE NameBefore(Tail(a), Tail(b))

\* C8 as claimed: the entries of a listing come newest first, and entries of
\* equal modification time come by name ascending, so that two listings of
\* the same entries are the same sequence however the directory was enumerated.
C8_NewestFirstTiesByName ==
  /\ \A l \in Callers :
       CleanList(l) =>
         \A i, j \in DOMAIN st[l].retList :
           i < j =>
             LET a == st[l].retList[i]
                 b == st[l].retList[j]
             IN  \/ a.modificationTime > b.modificationTime
                 \/ /\ a.modificationTime = b.modificationTime
                    /\ NameBefore(a.name, b.name)
  /\ \A l, m \in Callers :
       (CleanList(l) /\ CleanList(m)
          /\ Range(st[l].retList) = Range(st[m].retList))
       => st[l].retList = st[m].retList

----------------------------------------------------------------------------
(* C9 *)

\* the name ends in ".pdf", whatever the case of the letters
C9_EndsInPdf(n) ==
  /\ Len(n) >= 4
  /\ n[Len(n) - 3] = "."
  /\ n[Len(n) - 2] \in {"p", "P"}
  /\ n[Len(n) - 1] \in {"d", "D"}
  /\ n[Len(n)] \in {"f", "F"}

\* the index of the listing of l whose getInfoAsync settles in this step
Settles(l, i) ==
  /\ st[l].op = "list" /\ st[l].pc = "getInfos"
  /\ i \in DOMAIN st[l].infos
  /\ st[l].infos[i].k = "pending" /\ st'[l].infos[i].k # "pending"

\* C9: listAllPdfs enumerates exactly the names of the directory that end in
\* ".pdf" in any case; a file that is there when its metadata is read gives an
\* entry with the size and modification time read, a file that is gone by then
\* or whose read throws gives none; the listing returns, each once, exactly
\* the entries of the files whose read succeeded, and never throws.
C9_ListsExactlyReadablePdfs ==
  /\ [][\A l \in Callers : st[l].op = "list" =>
          /\ (Steps(l, "readDir") /\ st'[l].err = NoErr)
             => /\ Range(st'[l].pdfFiles) = {n \in DirNames(fs) : C9_EndsInPdf(n)}
                /\ Len(st'[l].pdfFiles) = Cardinality(Range(st'[l].pdfFiles))
          /\ \A i \in DOMAIN st[l].infos :
               Settles(l, i) =>
                 LET u == DocUri(st[l].pdfFiles[i])
                     e == st'[l].infos[i]
                 IN  /\ e.k = "ok" => /\ Exists(fs, u)
                                      /\ e.name = u.n
                                      /\ e.modificationTime = fs[u].mtime
                                      /\ e.rawSize = Len(fs[u].data)
                     /\ e.k = "gone" => ~Exists(fs, u)
                     /\ ~Exists(fs, u) => e.k # "ok"
          /\ fs' # fs => st'[l] = st[l]]_vars
  /\ [](\A l \in Callers :
          st[l].op = "list" =>
            /\ st[l].pc # "failed"
            /\ st[l].pc = "done" =>
                 /\ Range(st[l].retList) =
                      {st[l].infos[i] : i \in {j \in DOMAIN st[l].infos :
                                                 st[l].infos[j].k = "ok"}}
                 /\ Len(st[l].retList) = Cardinality(ListedNames(l)))

\* a listing that lost one entry to a concurrent deletion and returned the
\* other, a name with an upper-case extension
C9_Witness ==
  \E l, d \in Callers :
    /\ st[l].op = "list" /\ st[l].pc = "done"
    /\ Deleted(d) /\ st[d].retBool /\ Overlap(l, d)
    /\ \E i \in DOMAIN st[l].infos :
         st[l].infos[i].k = "gone" /\ st[l].pdfFiles[i] = st[d].uri.n
    /\ Len(st[l].retList) = 1
    /\ st[l].retList[1].name = <<"B", ".", "P", "D", "F">>
    /\ <<"n", ".", "t", "x", "t">> \in DirNames(fs)

----------------------------------------------------------------------------
(* C10 *)

\* C10: getPdfFileInfo changes no file; it returns only for a file that exists,
\* with the size and the modification time the file has at that moment; it
\* throws "PDF file not found" only when the file does not exist, and for a
\* file that exists it throws only what getInfoAsync threw.
C10_InfoSnapshotOrNotFound ==
  [][\A c \in Callers :
       (st[c].op = "info" /\ Steps(c, "getInfo"))
       => /\ fs' = fs
          /\ st'[c].pc \in {"done", "failed"}
          /\ st'[c].pc = "failed"
             => /\ st'[c].err.msg \in {"PDF file not found", "platform"}
                /\ (st'[c].err.msg = "PDF file not found") => ~Exists(fs, st[c].uri)
                /\ Exists(fs, st[c].uri) => (st'[c].err.msg = "platform")
          /\ st'[c].pc = "done"
             => /\ Exists(fs, st[c].uri)
                /\ st'[c].retInfo.size = Len(fs[st[c].uri].data)
                /\ st'[c].retInfo.modificationTime = fs[st[c].uri].mtime]_vars

\* the information of a document asked for after its deletion: not found
C10_Witness ==
  \E d, c \in Callers :
    /\ Deleted(d) /\ st[d].retBool /\ Before(d, c)
    /\ st[c].op = "info" /\ st[c].uri = st[d].uri /\ st[c].pc = "failed"
    /\ st[c].err = [msg |-> "PDF file not found", wraps |-> 0]

----------------------------------------------------------------------------
(* C11 *)

\* the characters no stored name may hold
C11_Forbidden == {"<", ">", ":", "\"", "/", "\\", "|", "?", "*", "\t", "\n"}

\* C11: whatever the text typed, the name sanitizePdfName makes of it and the
\* name sanitizeFileName makes (of the text, or of the editor's name) contain
\* none of the characters < > : " / \ | ? * and no control character.
C11_NoReservedCharacters ==
  /\ ed.pc = "sanitized" => Range(ed.finalPdfName) \cap C11_Forbidden = {}
  /\ ed.pc \in {"fileOfTyped", "fileOfFinal"}
       => Range(ed.fileName) \cap C11_Forbidden = {}

\* a typed name with a slash and a colon, sanitized by the editor
C11_Witness ==
  /\ ed.pc = "sanitized"
  /\ ed.pdfName = MyReport
  /\ ed.finalPdfName = <<"M", "y", "_", "R", "e", "p", "o", "r", "t", "_",
                         "2", "0", "2", "4", ".", "p", "d", "f">>

----------------------------------------------------------------------------
(* C12 *)

\* the typed text after the replacement of characters and the trimming of
\* white space and dots: what the extension is appended to
C12_Core == StripDots(Trim(ReplaceReserved(ed.pdfName)))

\* C12 as claimed: whatever the text typed, the name sanitizePdfName makes
\* ends in ".pdf" in some letter case, and a text that ends in the extension
\* already is given no second one.
C12_EndsWithExtensionOnce ==
  ed.pc = "sanitized" =>
    /\ C9_EndsInPdf(ed.finalPdfName)
    /\ (C9_EndsInPdf(C12_Core) /\ Len(C12_Core) > Len(PdfExt))
         => ed.finalPdfName = C12_Core

----------------------------------------------------------------------------
(* C13 *)

\* C13 as claimed: for a typed text of more than 100 characters, or of more
\* than 100 once the extension is appended, the name sanitizePdfName makes
\* has at most 100 characters and ends in ".pdf".
C13_LongNamesKeepExtension ==
  (/\ ed.pc = "sanitized"
   /\ \/ Len(ed.pdfName) > 100
      \/ ~C9_EndsInPdf(ed.pdfName) /\ Len(ed.pdfName) + Len(PdfExt) > 100)
  => /\ Len(ed.finalPdfName) <= 100
     /\ C9_EndsInPdf(ed.finalPdfName)

----------------------------------------------------------------------------
(* C14 *)

\* C14 as claimed: for a typed text that is empty, white space only, or only
\* the extension in any letter case, sanitizePdfName returns the default name
\* Document-YYYY-MM-DD-HHMMSS-<count>images.pdf.
C14_DefaultForEmptyNames ==
  (/\ ed.pc = "sanitized"
   /\ \/ ed.pdfName = <<>>
      \/ Range(ed.pdfName) \subseteq {" ", "\t", "\n"}
      \/ ToLowerCase(ed.pdfName) = PdfExt)
  => ed.finalPdfName = generateDefaultPdfName(ed.editingImages, ed.now)

----------------------------------------------------------------------------
(* C15 *)

\* the copy of a commit of c that met no collision succeeds in this step
CopiesFirstChoice(c) ==
  /\ st[c].op = "rename" /\ st[c].depth = 0
  /\ Steps(c, "copy") /\ st'[c].pc = "delSrc"

\* C15: the copy of a commit whose sanitized name met no collision writes
\* the content of the source to directory/sanitizeFileName(name), adds that
\* name and no other to the directory and touches no other file; the commit
\* then returns that uri.  sanitizeFileName("My/Report:2024") is
\* "My_Report_2024.pdf".
C15_StoredUnderSanitizedName ==
  /\ [][\A c \in Callers :
          CopiesFirstChoice(c) =>
            LET u == DocUri(sanitizeFileName(st[c].newName))
            IN  /\ Exists(fs', u)
                /\ fs'[u].data = fs[st[c].src].data
                /\ DirNames(fs') = DirNames(fs) \cup {u.n}
                /\ Touched \subseteq {u}]_vars
  /\ [](\A c \in Callers :
          (Renamed(c) /\ st[c].depth = 0)
            => st[c].retUri = DocUri(sanitizeFileName(st[c].newName)))
  /\ [](sanitizeFileName(MyReport) =
          <<"M", "y", "_", "R", "e", "p", "o", "r", "t", "_",
            "2", "0", "2", "4", ".", "p", "d", "f">>)

\* a commit under the name "/.PDF" into an empty directory has returned: the
\* directory holds "_.PDF" and nothing else, with the content of the source
C15_Witness ==
  \E c \in Callers :
    /\ Renamed(c) /\ st[c].depth = 0
    /\ st[c].newName = <<"/", ".", "P", "D", "F">>
    /\ st[c].retUri = DocUri(<<"_", ".", "P", "D", "F">>)
    /\ DirNames(fs) = {<<"_", ".", "P", "D", "F">>}
    /\ fs[st[c].retUri].data = <<st[c].src.n>>

----------------------------------------------------------------------------
(* C16 *)

\* the clock values a retry can sample
C16_Times == (OldMtime + 1)..MaxClock

\* name without its four characters of extension
C16_Stem(name) == SubSeq(name, 1, Len(name) - 4)

\* N_<timestamp>.pdf for N.pdf
C16_WithSuffix(name, t) ==
  C16_Stem(name) \o <<"_">> \o ToDigits(t) \o <<".", "p", "d", "f">>

\* C16 as claimed: a commit that found its sanitized name N.pdf taken stores
\* the document under N_<timestamp>.pdf, with a single suffix.
C16_SingleSuffix ==
  \A c \in Callers :
    (Renamed(c) /\ st[c].depth >= 1)
      => \E t \in C16_Times :
           st[c].retUri.n = C16_WithSuffix(sanitizeFileName(st[c].newName), t)

\* the candidate of a retry: the suffix is put before the extension, and an
\* underscore that ends N merges with the one of the suffix
C16_Retried(name, t) ==
  LET stem == C16_Stem(name)
  IN  IF stem # <<>> /\ stem[Len(stem)] = "_"
      THEN C16_WithSuffix(SubSeq(stem, 1, Len(stem) - 1) \o <<".", "p", "d", "f">>, t)
      ELSE C16_WithSuffix(name, t)

\* the names made of `name` by k retries
RECURSIVE C16_RetriedTimes(_, _)
C16_RetriedTimes(name, k) ==
  IF k = 0 THEN {name}
  ELSE {C16_Retried(n, t) : n \in C16_RetriedTimes(name, k - 1), t \in C16_Times}

\* C16, amended: every retry puts one suffix _<timestamp> before the
\* extension of the candidate it found taken, the timestamp being the clock
\* at that retry (an underscore ending the candidate's stem merges with the
\* suffix's); the stored name is N_<timestamp>.pdf when one retry was enough
\* and N does not end in an underscore, and has one suffix per collision met
\* otherwise; a later listing, no deletion of either having been asked, shows
\* the first choice N.pdf and the stored name.
C16_OneSuffixPerCollision ==
  /\ [][\A c \in Callers :
          (st[c].op = "rename" /\ Steps(c, "tgtDone") /\ st[c].tgtExists)
            => /\ st'[c].cleanName = C16_Retried(st[c].cleanName, clock)
               /\ st'[c].depth = st[c].depth + 1]_vars
  /\ [](\A c \in Callers :
          Renamed(c) =>
            /\ st[c].retUri.n \in
                 C16_RetriedTimes(sanitizeFileName(st[c].newName), st[c].depth)
            /\ (st[c].depth = 1 /\ st[c].newName = <<"a">>)
                 => \E t \in C16_Times :
                      st[c].retUri.n = C16_WithSuffix(<<"a", ".", "p", "d", "f">>, t))
  /\ [](\A c, l \in Callers :
          (/\ Renamed(c) /\ st[c].depth >= 1
           /\ CleanList(l) /\ Before(c, l)
           /\ NoDeleteOf(st[c].retUri)
           /\ NoDeleteOf(DocUri(sanitizeFileName(st[c].newName))))
          => {st[c].retUri.n, sanitizeFileName(st[c].newName)}
               \subseteq ListedNames(l))

\* a commit that met two collisions and stored a name with two suffixes,
\* listed with the first choice
C16_Witness ==
  \E c, l \in Callers :
    /\ Renamed(c) /\ st[c].depth = 2
    /\ st[c].retUri.n = <<"a", "_", "2", "_", "3", ".", "p", "d", "f">>
    /\ CleanList(l) /\ Before(c, l)
    /\ {st[c].retUri.n, <<"a", ".", "p", "d", "f">>,
        <<"a", "_", "2", ".", "p", "d", "f">>} \subseteq ListedNames(l)

----------------------------------------------------------------------------
(* C17 *)

\* c and q asked for the same sanitized name, both saw it absent, overlapping
C17_BothSawAbsent(c, q) ==
  /\ st[c].op = "rename" /\ st[q].op = "rename" /\ Overlap(c, q)
  /\ st[c].depth = 0 /\ st[q].depth = 0
  /\ sanitizeFileName(st[c].newName) = sanitizeFileName(st[q].newName)

\* C17: a commit that saw its name absent goes on to the copy with that name,
\* whatever has been stored under it since; its copy, when it succeeds,
\* leaves the content of its source under the name, replacing what was there,
\* and a copy step fails only with the platform's error; a stored file
\* changes only by a copy to its name or a deletion of it.  So two
\* overlapping commits that both saw the same name absent and both returned
\* return the same uri, and the file holds the content of a source of theirs,
\* that of the later copy.
C17_LastWriterWins ==
  /\ [][\A c \in Callers : st[c].op = "rename" =>
          /\ (Steps(c, "tgtDone") /\ ~st[c].tgtExists)
               => /\ st'[c].pc = "copy"
                  /\ st'[c].cleanName = st[c].cleanName
                  /\ st'[c].depth = st[c].depth
          /\ (Steps(c, "copy") /\ st'[c].pc = "delSrc")
               => /\ Exists(fs', targetUri(st[c]))
                  /\ fs'[targetUri(st[c])].data = fs[st[c].src].data
          /\ (Steps(c, "copy") /\ st'[c].pc # "delSrc")
               => /\ st'[c].pc = "failed"
                  /\ st'[c].err.msg = "platform"]_vars
  /\ [][\A u \in Touched : u.d = "doc" =>
          \E q \in Callers :
            \/ st[q].op = "rename" /\ Steps(q, "copy") /\ targetUri(st[q]) = u
            \/ st[q].op = "delete" /\ Steps(q, "delete") /\ st[q].uri = u]_vars
  /\ [](\A c, q \in Callers :
          (C17_BothSawAbsent(c, q) /\ Renamed(c) /\ Renamed(q))
            => /\ st[c].retUri = st[q].retUri
               /\ st[c].retUri = DocUri(sanitizeFileName(st[c].newName))
               /\ Exists(fs, st[c].retUri)
               /\ fs[st[c].retUri].data \in {<<st[c].src.n>>, <<st[q].src.n>>})

\* two overlapping commits of different sources under the name "a" have both
\* returned a.pdf without a retry; the file holds the second source
C17_Witness ==
  /\ C17_BothSawAbsent("c1", "c2")
  /\ Renamed("c1") /\ Renamed("c2")
  /\ st["c1"].src # st["c2"].src
  /\ st["c1"].retUri = DocUri(<<"a", ".", "p", "d", "f">>)
  /\ st["c2"].retUri = st["c1"].retUri
  /\ fs[st["c1"].retUri].data = <<st["c2"].src.n>>

----------------------------------------------------------------------------
(* C18 *)

\* how far the commit is from its copy: the retries the directory still
\* allows, and within one attempt the awaits still to come
C18_Rank(pc) ==
  CASE pc = "idle" -> 4
    [] pc = "srcInfo" -> 3
    [] pc = "tgtInfo" -> 2
    [] pc = "tgtDone" -> 1
    [] OTHER -> 0

C18_Measure(f, r) ==
  (Cardinality(DirNames(f)) + 1 - r.depth) * 4 + C18_Rank(r.pc)

\* C18: whatever names the directory holds and whatever the clock returns,
\* the same value at consecutive retries included, the commit makes at most
\* one retry per name in the directory, every retry trying a longer name
\* than the one before, and every step brings it nearer to its copy (a
\* measure that cannot go below zero decreases), so the retries end; and the
\* commit fails only because the source is missing or a platform call threw,
\* never because of the collisions.
C18_ResolutionConverges ==
  /\ [](/\ st["c1"].depth <= Cardinality(DirNames(fs))
        /\ C18_Measure(fs, st["c1"]) >= 0)
  /\ [][st'["c1"] # st["c1"]
          => C18_Measure(fs', st'["c1"]) < C18_Measure(fs, st["c1"])]_vars
  /\ [][(Steps("c1", "tgtDone") /\ st["c1"].tgtExists)
          => /\ Len(st'["c1"].cleanName) > Len(st["c1"].cleanName)
             /\ st'["c1"].pc = "srcInfo"]_vars
  /\ [](st["c1"].pc = "failed"
          => st["c1"].err.msg \in {"platform", "Source PDF file not found"})

\* the commit has come to its copy after two retries that sampled the same
\* clock value, the directory holding the first choice and the name of the
\* first retry
C18_Witness ==
  /\ st["c1"].pc = "copy" /\ st["c1"].depth = 2
  /\ st["c1"].cleanName = <<"a", "_", "2", "_", "2", ".", "p", "d", "f">>
  /\ {<<"a", ".", "p", "d", "f">>, <<"a", "_", "2", ".", "p", "d", "f">>}
       \subseteq DirNames(fs)

----------------------------------------------------------------------------
(* C19 *)

\* C19 as claimed: a commit whose fifth retry hits a taken name too stops
\* and fails with CollisionUnresolved.
C19_RetriesCapped ==
  [][(Steps("c1", "tgtDone") /\ st["c1"].tgtExists /\ st["c1"].depth >= 5)
       => /\ st'["c1"].pc = "failed"
          /\ st'["c1"].err.msg = "CollisionUnresolved"]_vars

\* C19, amended: there is no cap and no CollisionUnresolved error: a commit
\* that finds its candidate taken retries, however many retries it has made,
\* and it never fails with an error of its own for the collisions; the number
\* of retries is bounded by the number of names in the directory only.
C19_RetriesUntilFree ==
  /\ [][(Steps("c1", "tgtDone") /\ st["c1"].tgtExists)
          => /\ st'["c1"].pc = "srcInfo"
             /\ st'["c1"].depth = st["c1"].depth + 1
             /\ st'["c1"].err = NoErr]_vars
  /\ [](st["c1"].err.msg # "CollisionUnresolved")
  /\ [](st["c1"].depth <= Cardinality(DirNames(fs)))

\* a commit at its copy after seven retries, every one of the seven names
\* of the directory having been found taken
C19_Witness ==
  /\ st["c1"].pc = "copy"
  /\ st["c1"].depth = 7
  /\ Cardinality(DirNames(fs)) = 7
  /\ st["c1"].cleanName \notin DirNames(fs)

----------------------------------------------------------------------------
(* C20 *)

\* the invariants of a document name: a base that is not empty, no path
\* separator and no control character, the extension, at most 100 characters
C20_DocumentName(n) ==
  /\ Len(n) > 4
  /\ C9_EndsInPdf(n)
  /\ Range(n) \cap {"/", "\\", "\t", "\n"} = {}
  /\ Len(n) <= 100

\* C20 as claimed: the name renamePdf makes of the name it is given (the
\* text of the rename dialog, or the editor's name) to store the document
\* under, and every name a collision retry makes of a document name, is a
\* document name.
C20_StoredNamesAreDocumentNames ==
  ed.pc \in {"fileOfTyped", "fileOfFinal"} =>
    /\ C20_DocumentName(ed.fileName)
    /\ C20_DocumentName(sanitizeFileName(UniqueName(ed.fileName, clock)))

----------------------------------------------------------------------------
(* C21 *)

\* the states of a commit: 1 Pending (the source is being verified),
\* 2 Resolving (a free name is being looked for, the copy is to come),
\* 3 Relocated (the copy is made, the source is to be cleaned up),
\* 4 SourceCleaned or SourceCleanupFailed (returned)
C21_Phase(r) ==
  CASE r.pc = "srcInfo" /\ r.depth = 0 -> 1
    [] r.pc \in {"srcInfo", "tgtInfo", "tgtDone", "copy"} -> 2
    [] r.pc = "delSrc" -> 3
    [] r.pc = "done" -> 4
    [] OTHER -> 0

\* C21: a commit goes from Pending to Resolving to Relocated to its return,
\* one state after the other, and fails from Pending or Resolving only; it
\* is Relocated by a copy that succeeded, and only the step it takes from
\* Relocated removes its source or leaves it (SourceCleaned or
\* SourceCleanupFailed).  So a commit that failed, no other commit having
\* been given the same source, has left the source it found.
C21_CommitStateMachine ==
  /\ [][\A c \in Callers :
          (st[c].op = "rename" /\ st'[c] # st[c]) =>
            LET a == C21_Phase(st[c])
                b == C21_Phase(st'[c])
            IN  /\ \/ st'[c].pc = "failed" /\ a \in {1, 2}
                   \/ b = a /\ a = 2
                   \/ b = a + 1
                /\ b = 3 => /\ Exists(fs', targetUri(st[c]))
                            /\ fs'[targetUri(st[c])].data = fs[st[c].src].data
                            /\ Exists(fs', st[c].src)
                /\ a = 3 => /\ b = 4
                            /\ fs' \in {fs, RemoveFile(fs, st[c].src)}
                /\ a # 3 => (Exists(fs, st[c].src)
                               => /\ Exists(fs', st[c].src)
                                  /\ fs'[st[c].src] = fs[st[c].src])]_vars
  /\ [](\A c \in Callers :
          (/\ st[c].op = "rename" /\ st[c].pc = "failed"
           /\ st[c].src.n \in SourceNames
           /\ \A q \in Callers \ {c} : ~(st[q].op = "rename" /\ st[q].src = st[c].src))
          => /\ Exists(fs, st[c].src)
             /\ fs[st[c].src].data = <<st[c].src.n>>)

\* a commit whose copy failed after it had created the destination: the
\* source is still there
C21_Witness ==
  \E c \in Callers :
    /\ st[c].op = "rename" /\ st[c].pc = "failed"
    /\ st[c].err.msg = "platform"
    /\ Exists(fs, targetUri(st[c])) /\ fs[targetUri(st[c])].data = <<>>
    /\ Exists(fs, st[c].src)
    /\ \A q \in Callers \ {c} : st[q].op # "rename"

----------------------------------------------------------------------------
(* C22 *)

\* the cycle of the rotations
C22_NextRotation(r) ==
  CASE r = 0 -> 90
    [] r = 90 -> 180
    [] r = 180 -> 270
    [] r = 270 -> 0
    [] r = -1 -> 90

\* C22: the rotation of an image of the picker is absent or one of 0, 90,
\* 180, 270; a rotation takes the rotation of one image one place on in the
\* cycle 0 > 90 > 180 > 270 > 0 (so four rotations restore it) and leaves
\* the other fields of that image and all the other images as they are.
C22_RotationCycles ==
  /\ [](\A j \in DOMAIN ed.items : ed.items[j].rotation \in {-1, 0, 90, 180, 270})
  /\ [][(Len(ed'.items) = Len(ed.items) /\ ed'.items # ed.items)
          => \E k \in DOMAIN ed.items :
               /\ ed'.items[k] =
                    [ed.items[k] EXCEPT !.rotation = C22_NextRotation(@)]
               /\ \A j \in DOMAIN ed.items \ {k} : ed'.items[j] = ed.items[j]]_vars

\* the first image has been rotated four times, the second twice, the third
\* never
C22_Witness ==
  /\ ed.pc = "editing" /\ Len(ed.items) = 3
  /\ ed.items[1].rotation = 0
  /\ ed.items[2].rotation = 180
  /\ ed.items[3].rotation = -1
  /\ ed.items[1].width = 4 /\ ed.items[1].id = 1

----------------------------------------------------------------------------
(* C23 *)

\* c has returned successfully, every other commit made has returned
\* successfully and was given another source, and nobody deletes
C23_AllCommitted(c) ==
  /\ Renamed(c)
  /\ \A q \in Callers \ {c} :
       /\ st[q].op = "rename" => (Renamed(q) /\ st[q].src # st[c].src)
       /\ st[q].op # "delete"

\* the content of c's source is stored under the path c returned
C23_Kept(c) ==
  /\ Exists(fs, st[c].retUri)
  /\ fs[st[c].retUri].data = <<st[c].src.n>>

\* C23 as claimed: for any interleaving of commits of distinct sources that
\* all returned successfully, with no deletion, the content of every
\* commit's source is in the managed directory under the path that commit
\* returned.
C23_NoCommittedDocumentLost ==
  \A c \in Callers : C23_AllCommitted(c) => C23_Kept(c)

\* C23 amended: under the same conditions the content of a commit's source
\* is under the returned path, unless another commit that overlapped it
\* returned the same path, and then the file holds the content of that
\* commit's source.  Commits that do not overlap, or return different
\* paths, lose nothing.
C23_LostOnlyToOverlappingCommit ==
  \A c \in Callers :
    C23_AllCommitted(c) =>
      \/ C23_Kept(c)
      \/ \E q \in Callers :
           /\ Overlap(c, q) /\ Renamed(q)
           /\ st[q].retUri = st[c].retUri
           /\ C23_Kept(q)

\* two commits of different sources made one after the other under the same
\* name have returned different paths, and both contents are stored
C23_Witness ==
  /\ C23_AllCommitted("c1") /\ C23_AllCommitted("c2")
  /\ Before("c1", "c2")
  /\ sanitizeFileName(st["c1"].newName) = sanitizeFileName(st["c2"].newName)
  /\ st["c1"].retUri # st["c2"].retUri
  /\ C23_Kept("c1") /\ C23_Kept("c2")
  /\ ~Exists(fs, st["c1"].src) /\ ~Exists(fs, st["c2"].src)

----------------------------------------------------------------------------
(* C24 *)

\* C24 as claimed: once a generated PDF has been discarded, or its save
\* dialog closed, the managed directory holds the names it held before the
\* generation, and a listing made afterwards does not return the temporary
\* file temp_<timestamp>.pdf of handleGeneratePdf.
C24_DiscardLeavesDirectoryAsBefore ==
  /\ app.alert \in {"Discarded", "Closed"} => DirNames(fs) = app.dirBefore
  /\ (app.alertAtLoad \in {"Discarded", "Closed"} /\ CleanList("c3"))
       => app.tempPdfName \notin ListedNames("c3")

----------------------------------------------------------------------------
(* C28 *)

\* the Save PDF button has stored the file without a collision
C28_Saved ==
  /\ app.alert = "Success" /\ Renamed("c1") /\ st["c1"].depth = 0
  /\ st["c1"].newName = app.alertName

\* C28 as claimed: for every name entered in the save dialog, with no
\* collision, the name of the file renamePdf stored is the name the dialog
\* displayed as 'File will be saved as' and the name in the success alert.
C28_StoredNameIsDisplayedName ==
  C28_Saved =>
    /\ st["c1"].retUri.n = FileWillBeSavedAs(app.alertName)
    /\ st["c1"].retUri.n = app.alertName

----------------------------------------------------------------------------
(* C25 *)

\* the files a step of caller c may change
C25_Frame(c) ==
  CASE st'[c].op = "delete" -> {st'[c].uri}
    [] st'[c].op = "rename" /\ st[c].pc = "copy" -> {targetUri(st[c])}
    [] st'[c].op = "rename" /\ st[c].pc = "delSrc" -> {st[c].src}
    [] OTHER -> {}

\* C25: a step of deletePdfFile changes no file but the one it was given,
\* and that one only by removing it; no step of listAllPdfs or
\* getPdfFileInfo changes the file system; a step of a commit changes no
\* file but its destination (the candidate it resolved to), at the copy, and
\* its own source, which it only removes, after the copy.  Every other file
\* is left as it is, and nothing changes while no caller takes a step.
C25_FrameEffects ==
  [][/\ st' = st => fs' = fs
     /\ \A c \in Callers :
          st'[c] # st[c] =>
            /\ Touched \subseteq C25_Frame(c)
            /\ st'[c].op \in {"list", "info"} => fs' = fs
            /\ (st'[c].op = "delete" \/ st[c].pc = "delSrc")
                 => \A u \in Touched : ~Exists(fs', u)]_vars

\* c1 has deleted a.pdf and c2 has committed a source under another name:
\* B.PDF and n.txt are as they were, and so is the other rendered file
C25_Witness ==
  /\ Deleted("c1") /\ st["c1"].retBool
  /\ ~Exists(fs, st["c1"].uri)
  /\ Renamed("c2") /\ ~Exists(fs, st["c2"].src)
  /\ Exists(fs, st["c2"].retUri) /\ st["c2"].retUri # st["c1"].uri
  /\ \A n \in OldNames \ {st["c1"].uri.n} :
       Exists(fs, DocUri(n)) /\ fs[DocUri(n)] = Rendered(n, OldMtime)
  /\ \E n \in SourceNames :
       /\ TmpUri(n) # st["c2"].src
       /\ Exists(fs, TmpUri(n)) /\ fs[TmpUri(n)] = Rendered(n, OldMtime)

----------------------------------------------------------------------------
(* C26 *)

\* C26 as claimed: of the deletePdfFile calls that run concurrently on the
\* same existing document, the call that returns true is the one whose
\* deletion removed the file, so no two of them return true.
C26_ExactlyOneDeleteReturnsTrue ==
  /\ [][\A c \in Callers :
          (st[c].op = "delete" /\ Steps(c, "delete") /\ st'[c].pc = "done"
             /\ st'[c].retBool)
            => Exists(fs, st[c].uri)]_vars
  /\ [](\A c, q \in Callers :
          (/\ Deleted(c) /\ Deleted(q) /\ Overlap(c, q)
           /\ st[c].uri = st[q].uri)
            => ~(st[c].retBool /\ st[q].retBool))

----------------------------------------------------------------------------
(* C27 *)

\* the name renamePdf sanitizes on a retry after a collision at time t
C27_RetryName(cleanName, t) == sanitizeFileName(UniqueName(cleanName, t))

\* C27: the file name the service made of a text is left unchanged by
\* sanitizeFileName; so is the name it makes on a collision retry (which may
\* differ from the unique name it was made of, a text that is not itself an
\* output of the sanitizer).
C27_SanitizeIsIdempotent ==
  ed.pc \in {"fileOfTyped", "fileOfFinal"} =>
    /\ sanitizeFileName(ed.fileName) = ed.fileName
    /\ \A t \in 1..MaxClock :
         sanitizeFileName(C27_RetryName(ed.fileName, t))
           = C27_RetryName(ed.fileName, t)

\* the text "/ ." gave a file name that differs from it, and the retry name
\* of that file name differs from the unique name
C27_Witness ==
  /\ ed.pc = "fileOfTyped"
  /\ ed.pdfName = <<"/", " ", " ", ".">>
  /\ ed.fileName = <<"_", ".", ".", "p", "d", "f">>
  /\ ed.fileName # ed.pdfName \o PdfExt
  /\ sanitizeFileName(ed.fileName) = ed.fileName

----------------------------------------------------------------------------
(* C29 *)

\* the editor has made the name to save under
C29_Made == ed.pc \in {"sanitized", "fileOfFinal"}

\* sanitizePdfName applied to the name it made
C29_Again == sanitizePdfName(ed.finalPdfName, ed.editingImages, ed.now)

C29_IsDefault ==
  ed.finalPdfName = generateDefaultPdfName(ed.editingImages, ed.now)

====
